---- MODULE Spec2Model ----
(***************************************************************************)
(* Model of the tdn-endpoint Django application (src/myapp/views.py):      *)
(*   - the query gate: set_level, load_allowed_queries, protected_sparql   *)
(*   - the mapping editor: field_mapping_view and the instantiated mapping *)
(*     document it reads and rewrites.                                     *)
(* Texts are sequences of one-character strings, so that strip, whitespace *)
(* normalisation and substring replacement are computed, not assumed.      *)
(***************************************************************************)
EXTENDS Integers, Sequences, FiniteSets, TLC

VARIABLES
    options,          \* LEVEL_DB: the options table of level.duckdb
    allowed_queries,  \* ALLOWED_DB: hash -> [level, query]
    gate,             \* the last gate request handled, with its response and downstream calls
    tables_columns,   \* DUCKDB_PATH: table name -> column names, in the store's order
    obda_file,        \* OBDA_FILE: the instantiated mapping document on disk
    sess,             \* the field_mapping_view requests in flight, one per session
    calc,             \* the last step of the editor run on its own: inputs and result
    ontop             \* the engine controller: processes alive, PID_FILE, requests in flight

gateVars == <<options, allowed_queries, gate>>

mapVars == <<tables_columns, obda_file, sess>>

vars == <<options, allowed_queries, gate, tables_columns, obda_file, sess, calc, ontop>>

-----------------------------------------------------------------------------
(* Text helpers                                                            *)

WS == {" ", "\n", "\t"}

RECURSIVE lstrip(_)
lstrip(s) == IF s # <<>> /\ Head(s) \in WS THEN lstrip(Tail(s)) ELSE s

RECURSIVE rstrip(_)
rstrip(s) ==
    IF s # <<>> /\ s[Len(s)] \in WS THEN rstrip(SubSeq(s, 1, Len(s) - 1)) ELSE s

\* Python str.strip()
strip(s) == rstrip(lstrip(s))

\* re.sub(r'\s+', ' ', s): every run of whitespace becomes one space
RECURSIVE collapse_ws(_)
collapse_ws(s) ==
    IF s = <<>> THEN <<>>
    ELSE IF Head(s) \in WS
         THEN <<" ">> \o collapse_ws(lstrip(s))
         ELSE <<Head(s)>> \o collapse_ws(Tail(s))

normalize_ws(s) == strip(collapse_ws(s))

\* hashlib.sha512(text).hexdigest(), modelled as a collision-free encoding of
\* the text: distinct texts of the model get distinct digests.
CharCode(c) ==
    CASE c = " "  -> 1
      [] c = "\n" -> 2
      [] c = "\t" -> 3
      [] c = "a"  -> 4
      [] c = "b"  -> 5
      [] c = "c"  -> 6
      [] OTHER    -> 7

RECURSIVE sha512(_)
sha512(s) == IF s = <<>> THEN 0 ELSE CharCode(Head(s)) + 8 * sha512(Tail(s))

-----------------------------------------------------------------------------
(* Access level store: set_level and level_choices                         *)

\* the list `valid` of set_level and `levels` of level_choices, in order
valid ==
    << "L0 - Boolean Queries",
       "L1 - Simple COUNT Aggregations",
       "L2 - Full Aggregations (AVG, ecc.)",
       "L3 - Grouped Data",
       "L4 - Limited Access to Non-Sensitive Data",
       "L5 - Access to Individual Patient Data",
       "L6 - Full Access to Data" >>

ValidSet == {valid[i] : i \in 1..Len(valid)}

NoParam == "<absent>"      \* request.POST.get(...) returning None
NoRow   == "<no row>"      \* the options table holds no row with key 'level'

\* level values a caller may post: the lowest, a middle and the highest level of
\* the enumeration, and some values that are not in it
PostedLevels == {valid[1], valid[3], valid[7], "L3", "L7 - Everything", "", NoParam}

Methods == {"GET", "POST"}

\* set_level's validity test, preceded by a faulty variant that accepts
\* whatever was posted (C6 must tell the two apart).
SetLevelAcceptsAny(lvl) == TRUE

SetLevelAccepts(lvl) == lvl \in ValidSet

\* CREATE TABLE IF NOT EXISTS options; INSERT OR REPLACE ('level', lvl)
WriteLevel(opt, lvl) == [exists |-> TRUE, level |-> lvl]

set_level(method, lvl) ==
    /\ options' = IF method = "POST" /\ SetLevelAccepts(lvl)
                  THEN WriteLevel(options, lvl)
                  ELSE options
    /\ gate' = [op |-> "set_level", method |-> method, lvl |-> lvl,
                before |-> options,
                status |-> IF method = "POST" THEN 302 ELSE 405]
    /\ UNCHANGED allowed_queries

\* the context processor run on every rendered page: creates the table if
\* needed and reads the level, defaulting to the first level
current_level(opt) ==
    IF opt.exists /\ opt.level \in ValidSet THEN opt.level ELSE valid[1]

level_choices ==
    /\ options' = [options EXCEPT !.exists = TRUE]
    /\ gate' = [op |-> "level_choices", current_level |-> current_level(options)]
    /\ UNCHANGED allowed_queries

-----------------------------------------------------------------------------
(* Allow-list store: the load_allowed_queries management command           *)

MaxCatalogLevel == 1     \* catalog sections are "## Level 0" .. "## Level MaxCatalogLevel"
MaxCatalogLen   == 1     \* fenced query blocks per catalog

\* the text between the fences of a catalog block, before .strip()
CatalogBodies == { <<"a", " ", "b", "\n">>, <<"c">> }

CatalogEntries == [level : 0..MaxCatalogLevel, body : CatalogBodies]

Catalogs == UNION {[1..n -> CatalogEntries] : n \in 0..MaxCatalogLen}

\* INSERT OR REPLACE INTO allowed_queries VALUES (h, lvl, q)
Upsert(aq, h, lvl, q) ==
    [x \in DOMAIN aq \cup {h} |->
        IF x = h THEN [level |-> lvl, query |-> q] ELSE aq[x]]

\* entries are hashed after .strip() and upserted in catalog order
RECURSIVE LoadEntries(_, _)
LoadEntries(aq, entries) ==
    IF entries = <<>> THEN aq
    ELSE LET query == strip(Head(entries).body)
             h     == sha512(query)
         IN  LoadEntries(Upsert(aq, h, Head(entries).level, query), Tail(entries))

load_allowed_queries(catalog) ==
    /\ allowed_queries' = LoadEntries(allowed_queries, catalog)
    /\ gate' = [op |-> "load_allowed_queries", loaded |-> Len(catalog)]
    /\ UNCHANGED options

-----------------------------------------------------------------------------
(* The gate request handler: protected_sparql                              *)

\* the 'template' parameter as posted (<<>> when the parameter is missing)
TemplateInputs ==
    { <<"a", " ", "b">>,           \* a catalogued template
      <<" ", "a", " ", "b">>,      \* the same, padded: .strip() restores it
      <<"a", " ", " ", "b">>,      \* the same wording with other whitespace
      <<"c">>,                     \* a second catalogued template
      <<>> }                       \* never catalogued (parameter missing)

\* the 'query' parameter as posted
QueryInputs == { <<"a", " ", "b">>, <<" ", "c", "\n">> }

AnalyticsKeys == {NoParam, "klDiv", "other"}

GateRequests ==
    [method : {"POST"}, template : TemplateInputs, query : QueryInputs,
     analytics_key : AnalyticsKeys]
    \cup
    [method : {"GET"}, template : {<<>>}, query : {<<>>}, analytics_key : {NoParam}]

\* what the downstream endpoint does with one forwarded call: requests.post
\* raises, raise_for_status raises, resp.json() raises, or a JSON value decodes
Failures == {"ConnectionError", "HTTPError 500", "JSONDecodeError"}

Bindings ==
    { <<>>,
      << [b |-> "false", ageOn |-> "n/a"] >>,
      << [b |-> "true", ageOn |-> "n/a"], [b |-> "false", ageOn |-> "17"] >> }

JsonBodies ==
    [type : {"object"}, bindings : Bindings] \cup [type : {"array"}, bindings : {<<>>}]

Downstream ==
    [ok : {FALSE}, error : Failures, body : {[type |-> "none", bindings |-> <<>>]}]
    \cup
    [ok : {TRUE}, error : {""}, body : JsonBodies]

\* float(aval) succeeds
IsFloat(v) == v \in {"42", "17"}

Response(status, kind, payload) == [status |-> status, kind |-> kind, payload |-> payload]

\* except Exception as e: JsonResponse({'error': f'Ontop query error: {e}'}, status=502)
\* Before it, a faulty variant that swallows the failure into an empty
\* successful result set (C5 must tell the two apart).
GatewayErrorSwallowed(e) == Response(200, "results", <<>>)

GatewayError(e) == Response(502, "error", <<"Ontop query error: ", e>>)

\* an exception no handler catches: Django answers 500
Uncaught(e) == Response(500, "exception", <<e>>)

\* step 5: the klDiv analytics on the decoded downstream body
klDiv(data) ==
    IF data.type # "object"
    THEN Uncaught("AttributeError")          \* data.get on a non-dict
    ELSE LET ages == {i \in 1..Len(data.bindings) : IsFloat(data.bindings[i].ageOn)}
         IN  IF ages = {}
             THEN Response(200, "kl", <<>>)  \* empty distributions, kl_divergence None
             ELSE Uncaught("NameError")      \* np is not imported in views.py

\* A faulty variant of the relay: the downstream body without its bindings
\* (C4 must tell it from the relay below).
RelayWithoutBindings(data) ==
    IF data.type = "object"
    THEN Response(200, "relay", <<[data EXCEPT !.bindings = <<>>]>>)
    ELSE GatewayError("TypeError")

\* step 6: JsonResponse(resp.json()) inside the try; a non-dict body makes
\* JsonResponse raise TypeError, which the same except clause turns into 502
Relay(data) ==
    IF data.type = "object"
    THEN Response(200, "relay", <<data>>)
    ELSE GatewayError("TypeError")

\* the handler's result: the response and the queries posted downstream
Handle(req, ds) ==
    IF req.method # "POST"
    THEN [resp |-> Response(405, "error", <<"POST only">>), calls |-> <<>>]
    ELSE LET q == strip(req.query)
         IN  IF req.analytics_key = "klDiv"
             THEN [resp  |-> IF ds.ok THEN klDiv(ds.body) ELSE GatewayError(ds.error),
                   calls |-> <<q>>]
             ELSE [resp  |-> IF ds.ok THEN Relay(ds.body) ELSE GatewayError(ds.error),
                   calls |-> <<q>>]

protected_sparql(req, ds) ==
    /\ gate' = [op |-> "protected_sparql", req |-> req, ds |-> ds,
                resp |-> Handle(req, ds).resp, calls |-> Handle(req, ds).calls]
    /\ UNCHANGED <<options, allowed_queries>>

-----------------------------------------------------------------------------
(* Texts of the mapping documents. A text is a sequence of characters; the *)
(* SQL keywords are single symbols, identifiers are spelled out.           *)

Keywords == {"SELECT", "FROM", "WHERE", "AS", "IS", "NOT", "NULL", "ISNAN"}

Upper  == {"A", "S"}
Lowers == {"a", "d", "e", "g", "i", "p", "s", "t", "v", "x"}
Digits == {"0", "1", "2", "3"}

\* \w of Python's re
WordChars == Upper \cup Lowers \cup Digits \cup {"_"} \cup Keywords

\* [A-Za-z_]
IdentStart == Upper \cup Lowers \cup {"_"} \cup Keywords

\* str.lower() on one character
Lower(c) == CASE c = "A" -> "a" [] c = "S" -> "s" [] OTHER -> c

LowerText(s) == [i \in 1..Len(s) |-> Lower(s[i])]

\* ord() of a character, for sorted()
Ord(c) ==
    CASE c = " " -> 32 [] c = "-" -> 45
      [] c = "0" -> 48 [] c = "1" -> 49 [] c = "2" -> 50
      [] c = "A" -> 65 [] c = "S" -> 83 [] c = "_" -> 95
      [] c = "a" -> 97 [] c = "d" -> 100 [] c = "e" -> 101 [] c = "g" -> 103
      [] c = "i" -> 105 [] c = "p" -> 112 [] c = "s" -> 115 [] c = "t" -> 116
      [] c = "v" -> 118 [] c = "x" -> 120
      [] OTHER -> 0

StartsWith(s, p) == Len(p) <= Len(s) /\ SubSeq(s, 1, Len(p)) = p

Drop(s, n) == SubSeq(s, n + 1, Len(s))

\* Python str.replace(old, new): non-overlapping occurrences, left to right
RECURSIVE Replace(_, _, _)
Replace(s, old, new) ==
    IF s = <<>> \/ old = <<>> THEN s
    ELSE IF StartsWith(s, old)
         THEN new \o Replace(Drop(s, Len(old)), old, new)
         ELSE <<Head(s)>> \o Replace(Tail(s), old, new)

\* the longest prefix of s made of characters of set C
RECURSIVE Run(_, _)
Run(s, C) == IF s # <<>> /\ Head(s) \in C THEN <<Head(s)>> \o Run(Tail(s), C) ELSE <<>>

\* the longest prefix of s made of characters outside set C
RECURSIVE RunNot(_, _)
RunNot(s, C) ==
    IF s # <<>> /\ Head(s) \notin C THEN <<Head(s)>> \o RunNot(Tail(s), C) ELSE <<>>

\* dict.fromkeys(seq): first occurrences, in order
RECURSIVE Dedupe(_)
Dedupe(q) ==
    IF q = <<>> THEN <<>>
    ELSE LET init == Dedupe(SubSeq(q, 1, Len(q) - 1))
             last == q[Len(q)]
         IN  IF \E i \in 1..Len(init) : init[i] = last THEN init ELSE Append(init, last)

Contains(q, x) == \E i \in 1..Len(q) : q[i] = x

\* re.findall(r'\{(\w+)\}', tgt)
RECURSIVE FindBraced(_)
FindBraced(s) ==
    IF s = <<>> THEN <<>>
    ELSE IF Head(s) = "{"
         THEN LET w    == Run(Tail(s), WordChars)
                  rest == Drop(Tail(s), Len(w))
              IN  IF w # <<>> /\ rest # <<>> /\ Head(rest) = "}"
                  THEN <<w>> \o FindBraced(Tail(rest))
                  ELSE FindBraced(Tail(s))
         ELSE FindBraced(Tail(s))

\* a match of FROM\s+"[^"]+" at the start of s: its length, 0 if none
FromMatchLen(s) ==
    IF s = <<>> \/ Head(s) # "FROM" THEN 0
    ELSE LET ws   == Run(Tail(s), WS)
             r1   == Drop(Tail(s), Len(ws))
         IN  IF ws = <<>> \/ r1 = <<>> \/ Head(r1) # "\"" THEN 0
             ELSE LET name == RunNot(Tail(r1), {"\""})
                      r2   == Drop(Tail(r1), Len(name))
                  IN  IF name = <<>> \/ r2 = <<>> \/ Head(r2) # "\"" THEN 0
                      ELSE 1 + Len(ws) + 1 + Len(name) + 1

None == <<"<None>">>     \* Python's None where a text is expected

\* (re.search(r'FROM\s+"([^"]+)"', src) or [None, None])[1]
RECURSIVE FromTable(_)
FromTable(s) ==
    IF s = <<>> THEN None
    ELSE LET n == FromMatchLen(s)
         IN  IF n > 0
             THEN LET ws == Run(Tail(s), WS)
                  IN  SubSeq(s, 1 + Len(ws) + 2, n - 1)
             ELSE FromTable(Tail(s))

\* re.sub(r'FROM\s+"[^"]+"', f'FROM "{tbl}"', src)
RECURSIVE SubFrom(_, _)
SubFrom(s, tbl) ==
    IF s = <<>> THEN <<>>
    ELSE LET n == FromMatchLen(s)
         IN  IF n > 0
             THEN <<"FROM", " ", "\"">> \o tbl \o <<"\"">> \o SubFrom(Drop(s, n), tbl)
             ELSE <<Head(s)>> \o SubFrom(Tail(s), tbl)

\* the lookahead (?=(?:=|<>|IS\s+NOT\s+NULL|IS\s+NULL)) at the start of s
OpAhead(s) ==
    \/ StartsWith(s, <<"=">>)
    \/ StartsWith(s, <<"<", ">">>)
    \/ /\ s # <<>> /\ Head(s) = "IS"
       /\ LET ws == Run(Tail(s), WS)
              r  == Drop(Tail(s), Len(ws))
          IN  /\ ws # <<>> /\ r # <<>>
              /\ \/ Head(r) = "NULL"
                 \/ /\ Head(r) = "NOT"
                    /\ LET ws2 == Run(Tail(r), WS)
                           r2  == Drop(Tail(r), Len(ws2))
                       IN  ws2 # <<>> /\ r2 # <<>> /\ Head(r2) = "NULL"

\* re.findall(r'\b([A-Za-z_]\w*)\b\s*(?=...)', src): identifiers standing
\* right before a comparison operator. `prev` is the character before s.
RECURSIVE FindOps(_, _)
FindOps(s, prev) ==
    IF s = <<>> THEN <<>>
    ELSE IF prev \notin WordChars /\ Head(s) \in IdentStart
         THEN LET w    == Run(s, WordChars)
                  rest == Drop(s, Len(w))
                  ws   == Run(rest, WS)
              IN  IF OpAhead(Drop(rest, Len(ws)))
                  THEN <<w>> \o FindOps(rest, w[Len(w)])
                  ELSE FindOps(Tail(s), Head(s))
         ELSE FindOps(Tail(s), Head(s))

\* re.findall(r'\bISNAN\s*\(\s*([A-Za-z_]\w*)\s*\)', src)
RECURSIVE FindIsnan(_, _)
FindIsnan(s, prev) ==
    IF s = <<>> THEN <<>>
    ELSE IF prev \notin WordChars /\ Head(s) = "ISNAN"
         THEN LET r1 == Drop(Tail(s), Len(Run(Tail(s), WS)))
              IN  IF r1 # <<>> /\ Head(r1) = "("
                  THEN LET r2 == Drop(Tail(r1), Len(Run(Tail(r1), WS)))
                           w  == IF r2 # <<>> /\ Head(r2) \in IdentStart
                                 THEN Run(r2, WordChars) ELSE <<>>
                           r3 == Drop(r2, Len(w))
                           r4 == Drop(r3, Len(Run(r3, WS)))
                       IN  IF w # <<>> /\ r4 # <<>> /\ Head(r4) = ")"
                           THEN <<w>> \o FindIsnan(Tail(r4), ")")
                           ELSE FindIsnan(Tail(s), Head(s))
                  ELSE FindIsnan(Tail(s), Head(s))
         ELSE FindIsnan(Tail(s), Head(s))

\* re.search(r'\b' + re.escape(w) + r'\b', s) for a word w
RECURSIVE HasWord(_, _, _)
HasWord(s, w, prev) ==
    IF Len(s) < Len(w) \/ w = <<>> THEN FALSE
    ELSE \/ /\ StartsWith(s, w)
            /\ prev \notin WordChars
            /\ (Len(s) = Len(w) \/ s[Len(w) + 1] \notin WordChars)
         \/ HasWord(Tail(s), w, Head(s))

\* Python's < on str
RECURSIVE TextLess(_, _)
TextLess(a, b) ==
    IF b = <<>> THEN FALSE
    ELSE IF a = <<>> THEN TRUE
    ELSE IF Head(a) = Head(b) THEN TextLess(Tail(a), Tail(b))
    ELSE Ord(Head(a)) < Ord(Head(b))

\* sorted(q) for a list of distinct texts
RECURSIVE Sorted(_)
Sorted(q) ==
    IF q = <<>> THEN <<>>
    ELSE LET m == CHOOSE i \in 1..Len(q) : \A j \in 1..Len(q) : ~TextLess(q[j], q[i])
         IN  <<q[m]>> \o Sorted(SubSeq(q, 1, m - 1) \o SubSeq(q, m + 1, Len(q)))

\* extract_columns_from_sql(sql, available_cols)
extract_columns_from_sql(sql, available_cols) ==
    LET low   == LowerText(sql)
        found == SelectSeq(available_cols, LAMBDA col : HasWord(low, LowerText(col), " "))
    IN  Sorted(found)

\* str.strip(chars)
RECURSIVE StripChars(_, _)
StripChars(s, C) ==
    IF s # <<>> /\ Head(s) \in C THEN StripChars(Tail(s), C)
    ELSE IF s # <<>> /\ s[Len(s)] \in C THEN StripChars(SubSeq(s, 1, Len(s) - 1), C)
    ELSE s

\* re.sub(r'[-\s]+', '-', s)
RECURSIVE CollapseDashes(_)
CollapseDashes(s) ==
    IF s = <<>> THEN <<>>
    ELSE IF Head(s) \in WS \cup {"-"}
         THEN <<"-">> \o CollapseDashes(Drop(s, Len(Run(s, WS \cup {"-"}))))
         ELSE <<Head(s)>> \o CollapseDashes(Tail(s))

\* django.utils.text.slugify(value): lower, drop what is not \w, \s or -,
\* collapse runs of - and whitespace into -, strip - and _ from the ends
slugify(value) ==
    LET kept == SelectSeq(LowerText(value), LAMBDA c : c \in WordChars \cup WS \cup {"-"})
    IN  StripChars(CollapseDashes(kept), {"-", "_"})

\* slugify(x).replace('-', '_')
slug_(value) == Replace(slugify(value), <<"-">>, <<"_">>)

-----------------------------------------------------------------------------
(* Mapping documents. A document is a sequence of items: the header text,  *)
(* the [MappingDeclaration] marker, the "@collection [[" opener, then per  *)
(* block a mappingId, a target and a source line and a blank line, and the *)
(* closing "]]".                                                           *)

Item(k, v) == [k |-> k, v |-> v]

Hdr == <<"p", "x">>                         \* the prologue of the template

\* template.obda: two blocks
TargetM1 == <<":", "p", "/", "{", "i", "d", "}", " ", ":", "g", " ", "{", "a", "g", "e", "}">>
SourceM1 == <<"SELECT", " ", "i", "d", ",", " ", "a", "g", "e", " ",
              "FROM", " ", "\"", "t", "1", "\"", " ",
              "WHERE", " ", "s", "t", " ", "=", " ", "1">>
TargetM2 == <<":", "v", "/", "{", "v", "i", "d", "}">>
SourceM2 == <<"SELECT", " ", "v", "i", "d", " ", "FROM", " ", "\"", "t", "2", "\"">>

TEMPLATE_OBDA ==
    << Item("hdr", Hdr \o <<"\n">>), Item("marker", <<>>), Item("open", <<>>),
       Item("id", <<"m", "1">>), Item("target", TargetM1), Item("source", SourceM1),
       Item("blank", <<>>),
       Item("id", <<"m", "2">>), Item("target", TargetM2), Item("source", SourceM2),
       Item("close", <<>>) >>

Positions(items, k) == {i \in 1..Len(items) : items[i].k = k}

Min(S) == CHOOSE x \in S : \A y \in S : x <= y
Max(S) == CHOOSE x \in S : \A y \in S : x >= y

\* tpl.split('[MappingDeclaration]', 1): unpacking into two names needs the marker
HasMarker(items) == Positions(items, "marker") # {}

HeaderOf(items) == SubSeq(items, 1, Min(Positions(items, "marker")) - 1)

BodyOf(items) == Drop(items, Min(Positions(items, "marker")))

\* re.search(r'@collection\s*\[\[(.*)\]\]', body, re.S): the first opener
\* and the last "]]" after it
HasCollection(body) ==
    /\ Positions(body, "open") # {}
    /\ \E c \in Positions(body, "close") : c > Min(Positions(body, "open"))

InnerOf(body) ==
    SubSeq(body, Min(Positions(body, "open")) + 1, Max(Positions(body, "close")) - 1)

\* str.strip() of a run of items: blank lines at either end go
RECURSIVE StripBlank(_)
StripBlank(items) ==
    IF items # <<>> /\ Head(items).k = "blank" THEN StripBlank(Tail(items))
    ELSE IF items # <<>> /\ items[Len(items)].k = "blank"
         THEN StripBlank(SubSeq(items, 1, Len(items) - 1))
    ELSE items

RECURSIVE StripBlankHead(_)
StripBlankHead(items) ==
    IF items # <<>> /\ Head(items).k = "blank" THEN StripBlankHead(Tail(items)) ELSE items

\* re.split(r'\n\s*\nmappingId', inner.strip()): a new chunk starts at every
\* mappingId line that follows a blank line; the blank lines are consumed
RECURSIVE SplitBlocks(_, _)
SplitBlocks(items, cur) ==
    IF items = <<>> THEN <<cur>>
    ELSE IF /\ Head(items).k = "blank"
            /\ LET after == StripBlankHead(items)
               IN  after # <<>> /\ Head(after).k = "id"
         THEN <<cur>> \o SplitBlocks(StripBlankHead(items), <<>>)
         ELSE SplitBlocks(Tail(items), Append(cur, Head(items)))

Chunks(inner) ==
    SelectSeq(SplitBlocks(StripBlank(inner), <<>>), LAMBDA c : StripBlank(c) # <<>>)

-----------------------------------------------------------------------------
(* field_mapping_view, step 1: the template's blocks and placeholders      *)

FirstOf(chunk, k) == chunk[Min(Positions(chunk, k))]

\* the text of several items, one per line
RECURSIVE JoinLines(_)
JoinLines(items) ==
    IF items = <<>> THEN <<>>
    ELSE IF Len(items) = 1 THEN Head(items).v
    ELSE Head(items).v \o <<"\n">> \o JoinLines(Tail(items))

\* re.search(r'source\s+(.*)', txt, re.S).group(1).strip(): from the first
\* source line to the end of the chunk
SourceText(chunk) == strip(JoinLines(Drop(chunk, Min(Positions(chunk, "source")) - 1)))

\* filters: identifiers before an operator, then ISNAN arguments, no repeats
Filters(src) == Dedupe(FindOps(src, " ") \o FindIsnan(src, " "))

\* a faulty variant of the extension below, which appends without looking
\* (C12 must tell the two apart)
ExtendAlways(base, more) == base \o more

\* append the members of `more` that `base` lacks, in order
RECURSIVE Extend(_, _)
Extend(base, more) ==
    IF more = <<>> THEN base
    ELSE Extend(IF Contains(base, Head(more)) THEN base ELSE Append(base, Head(more)),
                Tail(more))

TemplateBlock(chunk) ==
    LET tgt == strip(FirstOf(chunk, "target").v)
        src == SourceText(chunk)
    IN  [mappingId     |-> FirstOf(chunk, "id").v,
         target        |-> tgt,
         source_tpl    |-> src,
         table_default |-> FromTable(src),
         placeholders  |-> Extend(Dedupe(FindBraced(tgt)), Filters(src))]

TemplateBlocks ==
    LET chunks == Chunks(InnerOf(BodyOf(TEMPLATE_OBDA)))
    IN  [i \in 1..Len(chunks) |-> TemplateBlock(chunks[i])]

TemplateHeader == JoinLines(HeaderOf(TEMPLATE_OBDA))

\* step 2b: the table the block's default name resolves to in the live schema
DefaultTable(blk, tc) ==
    LET raw_tbl == IF blk.table_default = None THEN <<>> ELSE blk.table_default
        alt     == slug_(raw_tbl)
    IN  IF raw_tbl \in DOMAIN tc THEN raw_tbl
        ELSE IF alt \in DOMAIN tc THEN alt
        ELSE Replace(raw_tbl, <<" ">>, <<"_">>)

ColumnsOf(tc, tbl) == IF tbl \in DOMAIN tc THEN tc[tbl] ELSE <<>>

\* step 2b: columns of that table named in the SQL join the placeholders
WithSchemaColumns(blk, tc) ==
    LET cols  == ColumnsOf(tc, DefaultTable(blk, tc))
        extra == extract_columns_from_sql(blk.source_tpl, cols)
    IN  [blk EXCEPT !.placeholders = Extend(blk.placeholders, extra)]

\* mapping_blocks after steps 1 and 2b, for the schema read in step 2
mapping_blocks(tc) == [i \in 1..Len(TemplateBlocks) |-> WithSchemaColumns(TemplateBlocks[i], tc)]

-----------------------------------------------------------------------------
(* field_mapping_view, step 7: rebuilding the document from the POST data  *)

\* a JSON scalar: an int, or a string that int() may or may not parse
JInt(n)       == [t |-> "int", num |-> TRUE,  n |-> n, s |-> <<>>]
JNumStr(n, s) == [t |-> "str", num |-> TRUE,  n |-> n, s |-> s]
JStr(s)       == [t |-> "str", num |-> FALSE, n |-> 0, s |-> s]

\* seq[i] with Python's indexing: -len <= i < len
InRange(q, i) == -Len(q) <= i /\ i < Len(q)

At(q, i) == IF i >= 0 THEN q[i + 1] ELSE q[Len(q) + i + 1]

\* one connections entry: (var_name, col_name) by position, or the raw
\* key and value when a conversion or an index fails
ConnEntry(blk, cols, key, val) ==
    IF key.num /\ val.num /\ InRange(blk.placeholders, key.n) /\ InRange(cols, val.n)
    THEN [var |-> At(blk.placeholders, key.n), col |-> At(cols, val.n), text |-> TRUE]
    ELSE [var |-> key.s, col |-> val.s, text |-> val.t = "str"]

\* conn_map[var_name] = col_name on an insertion-ordered dict
DictSet(d, e) ==
    IF \E i \in 1..Len(d) : d[i].var = e.var
    THEN [i \in 1..Len(d) |-> IF d[i].var = e.var THEN e ELSE d[i]]
    ELSE Append(d, e)

RECURSIVE ConnMap(_, _, _, _)
ConnMap(blk, cols, pairs, d) ==
    IF pairs = <<>> THEN d
    ELSE ConnMap(blk, cols, Tail(pairs),
                 DictSet(d, ConnEntry(blk, cols, Head(pairs).key, Head(pairs).val)))

\* the four source replacements of one entry, in the code's order
SubstSource(src, var, col) ==
    LET s1 == Replace(src, var \o <<",">>, col \o <<",">>)
        s2 == Replace(s1,  var \o <<" ">>, col \o <<" ">>)
        s3 == Replace(s2,  var \o <<")">>, col \o <<")">>)
    IN  Replace(s3, <<"(">> \o var, <<"(">> \o col)

SubstTarget(tgt, var, col) == Replace(tgt, <<"{">> \o var \o <<"}">>, <<"{">> \o col \o <<"}">>)

\* substitute every entry of conn_map, in order, in target and source
RECURSIVE Substitute(_, _, _)
Substitute(tgt, src, d) ==
    IF d = <<>> THEN [target |-> tgt, source |-> src]
    ELSE Substitute(SubstTarget(tgt, Head(d).var, Head(d).col),
                    SubstSource(src, Head(d).var, Head(d).col),
                    Tail(d))

\* what the loop body raises for one block, "" if nothing
BlockError(blk, tc, post) ==
    IF post.table = <<>> THEN ""
    ELSE IF post.connections.kind = "malformed" THEN "JSONDecodeError"
    ELSE IF post.connections.kind = "nondict" THEN "AttributeError"
    ELSE LET d == ConnMap(blk, ColumnsOf(tc, post.table), post.connections.pairs, <<>>)
         IN  IF \E i \in 1..Len(d) : ~d[i].text THEN "TypeError" ELSE ""

\* the block is skipped when no table was chosen; before it, a faulty variant
\* that writes the block anyway (C7 must tell the two apart).
SkipsBlockNever(post) == FALSE

SkipsBlock(post) == post.table = <<>>

\* the four lines of one block
BlockLines(blk, tc, post) ==
    IF SkipsBlock(post) THEN <<>>
    ELSE LET d   == ConnMap(blk, ColumnsOf(tc, post.table), post.connections.pairs, <<>>)
             out == Substitute(blk.target, SubFrom(blk.source_tpl, post.table), d)
         IN  << Item("id", blk.mappingId),
                Item("target", out.target \o <<" ">>),
                Item("source", out.source),
                Item("blank", <<>>) >>

RECURSIVE AllBlockLines(_, _, _)
AllBlockLines(blocks, tc, data) ==
    IF blocks = <<>> THEN <<>>
    ELSE BlockLines(Head(blocks), tc, data[Head(blocks).mappingId])
         \o AllBlockLines(Tail(blocks), tc, data)

\* "\n".join(lines)
BuildDocument(blocks, tc, data) ==
    << Item("hdr", strip(TemplateHeader)), Item("blank", <<>>),
       Item("marker", <<>>), Item("open", <<>>) >>
    \o AllBlockLines(blocks, tc, data)
    \o << Item("close", <<>>) >>

\* the first exception of the loop over the blocks, "" if none
RECURSIVE BuildError(_, _, _)
BuildError(blocks, tc, data) ==
    IF blocks = <<>> THEN ""
    ELSE LET e == BlockError(Head(blocks), tc, data[Head(blocks).mappingId])
         IN  IF e # "" THEN e ELSE BuildError(Tail(blocks), tc, data)

-----------------------------------------------------------------------------
(* field_mapping_view, steps 3 and 4: reading back the instantiated        *)
(* document and rebuilding the positional connections                      *)

NoFile == <<Item("<no file>", <<>>)>>      \* os.path.exists(OBDA_FILE) is false

Put(m, k, v) == [x \in DOMAIN m \cup {k} |-> IF x = k THEN v ELSE m[x]]

Get(m, k, default) == IF k \in DOMAIN m THEN m[k] ELSE default

EmptyMap == [x \in {} |-> <<>>]

\* re.search(rf"([^\s,]+)\s+AS\s+{var}\b", src_line): the token aliased to
\* var, None when there is no match
RECURSIVE AliasOf(_, _)
AliasOf(s, var) ==
    IF s = <<>> THEN None
    ELSE LET tok == RunNot(s, WS \cup {","})
             r1  == Drop(s, Len(tok))
             ws1 == Run(r1, WS)
             r2  == Drop(r1, Len(ws1))
             ws2 == IF r2 # <<>> THEN Run(Tail(r2), WS) ELSE <<>>
             r3  == IF r2 # <<>> THEN Drop(Tail(r2), Len(ws2)) ELSE <<>>
         IN  IF /\ tok # <<>> /\ ws1 # <<>>
                /\ r2 # <<>> /\ Head(r2) = "AS"
                /\ ws2 # <<>>
                /\ StartsWith(r3, var)
                /\ (Len(r3) = Len(var) \/ r3[Len(var) + 1] \notin WordChars)
             THEN tok
             ELSE AliasOf(Tail(s), var)

Quotes == {"'", "\""}

IsQuoted(tok) == Head(tok) \in Quotes /\ tok[Len(tok)] \in Quotes

\* the per-placeholder loop: alias, else bare occurrence
RECURSIVE AliasOrBare(_, _, _)
AliasOrBare(vars_, src_line, ph_map) ==
    IF vars_ = <<>> THEN ph_map
    ELSE LET var == Head(vars_)
             tok == AliasOf(src_line, var)
             nxt == IF tok # None
                    THEN IF IsQuoted(tok) THEN ph_map
                         ELSE Put(ph_map, var, StripChars(tok, Quotes))
                    ELSE IF HasWord(src_line, var, " ") THEN Put(ph_map, var, var)
                    ELSE ph_map
         IN  AliasOrBare(Tail(vars_), src_line, nxt)

\* positional fill: taken when some placeholder is still unmapped and the
\* counts agree; it then rewrites every placeholder
Positional(vars_, saved_vars, ph_map) ==
    IF (\E i \in 1..Len(vars_) : vars_[i] \notin DOMAIN ph_map) /\ Len(saved_vars) = Len(vars_)
    THEN [x \in DOMAIN ph_map \cup {vars_[i] : i \in 1..Len(vars_)} |->
            IF \E i \in 1..Len(vars_) : vars_[i] = x
            THEN saved_vars[Max({i \in 1..Len(vars_) : vars_[i] = x})]
            ELSE ph_map[x]]
    ELSE ph_map

\* re.search(r'WHERE\s+(.*)', s, re.S): the text after the first WHERE,
\* None when there is none
RECURSIVE WherePart(_)
WherePart(s) ==
    IF s = <<>> THEN None
    ELSE IF Head(s) = "WHERE" /\ Run(Tail(s), WS) # <<>>
         THEN Drop(Tail(s), Len(Run(Tail(s), WS)))
         ELSE WherePart(Tail(s))

\* re.findall(r'(\w+)\s*=', s)
RECURSIVE FindEq(_)
FindEq(s) ==
    IF s = <<>> THEN <<>>
    ELSE LET w  == Run(s, WordChars)
             r  == Drop(s, Len(w))
             r2 == Drop(r, Len(Run(r, WS)))
         IN  IF w # <<>> /\ r2 # <<>> /\ Head(r2) = "="
             THEN <<w>> \o FindEq(Tail(r2))
             ELSE FindEq(Tail(s))

\* dict(zip(orig_cols, new_cols)) merged over ph_map
RECURSIVE MergeZip(_, _, _)
MergeZip(ph_map, orig_cols, new_cols) ==
    IF orig_cols = <<>> THEN ph_map
    ELSE MergeZip(Put(ph_map, Head(orig_cols), Head(new_cols)), Tail(orig_cols), Tail(new_cols))

FilterMerge(source_tpl, src_line, ph_map) ==
    LET tmpl_where   == WherePart(source_tpl)
        mapped_where == WherePart(src_line)
    IN  IF tmpl_where # None /\ mapped_where # None
           /\ Len(FindEq(tmpl_where)) = Len(FindEq(mapped_where))
        THEN MergeZip(ph_map, FindEq(tmpl_where), FindEq(mapped_where))
        ELSE ph_map

\* the chunk's mappingId: its first line, or whatever token follows the
\* 'mappingId ' the code prepends to a chunk that does not start with one
Bogus == <<"<not an id>">>

ChunkId(chunk) == IF Head(chunk).k = "id" THEN Head(chunk).v ELSE Bogus

\* re.search(r'target\s+(.*?)\n', blk_txt, re.S) finds a target line that a
\* newline ends; re.search(r'source\s+(.*)', ...) finds a source line
ChunkParses(chunk) ==
    /\ Positions(chunk, "target") # {}
    /\ Min(Positions(chunk, "target")) < Len(chunk)
    /\ Positions(chunk, "source") # {}

\* a chunk whose target parses records its saved_vars before the source is searched
ChunkHasTarget(chunk) ==
    Positions(chunk, "target") # {} /\ Min(Positions(chunk, "target")) < Len(chunk)

SavedVars(chunk) == Dedupe(FindBraced(strip(FirstOf(chunk, "target").v)))

TemplateBlockFor(blocks, mid) ==
    IF \E i \in 1..Len(blocks) : blocks[i].mappingId = mid
    THEN <<blocks[Min({i \in 1..Len(blocks) : blocks[i].mappingId = mid})]>>
    ELSE <<>>

\* existing[mid] for one chunk that parses
ExistingEntry(chunk, blocks) ==
    LET src_line == SourceText(chunk)
        found    == TemplateBlockFor(blocks, ChunkId(chunk))
        ph_map   == IF found = <<>>
                    THEN \* no block of the template has this id: the code goes on
                         \* with the loop's last block
                         FilterMerge(blocks[Len(blocks)].source_tpl, src_line, EmptyMap)
                    ELSE FilterMerge(found[1].source_tpl, src_line,
                            Positional(found[1].placeholders, SavedVars(chunk),
                                AliasOrBare(found[1].placeholders, src_line, EmptyMap)))
    IN  [table |-> FromTable(src_line), placeholders |-> ph_map]

\* the loop over the chunks, each in its own try/except
RECURSIVE Existing(_, _, _)
Existing(chunks, blocks, acc) ==
    IF chunks = <<>> THEN acc
    ELSE LET c == StripBlank(Head(chunks))
         IN  Existing(Tail(chunks), blocks,
                 [existing |-> IF ChunkParses(c)
                               THEN Put(acc.existing, ChunkId(c), ExistingEntry(c, blocks))
                               ELSE acc.existing,
                  existing_placeholders |->
                               IF ChunkHasTarget(c)
                               THEN Put(acc.existing_placeholders, ChunkId(c), SavedVars(c))
                               ELSE acc.existing_placeholders])

\* step 3 as a whole: what it raises ("" if nothing) ...
ReadError(file) ==
    IF file = NoFile THEN ""
    ELSE IF ~HasMarker(file) THEN "ValueError"
    ELSE IF ~HasCollection(BodyOf(file)) THEN "AttributeError"
    ELSE ""

\* ... and the two dictionaries it builds
ReadExisting(file, blocks) ==
    IF file = NoFile
    THEN [existing |-> EmptyMap, existing_placeholders |-> EmptyMap]
    ELSE Existing(Chunks(InnerOf(BodyOf(file))), blocks,
                  [existing |-> EmptyMap, existing_placeholders |-> EmptyMap])

\* the three match tiers of step 4: the 0-based index of col in cols, -1 if none
IndexWhere(hits) ==
    IF \E j \in 1..Len(hits) : hits[j]
    THEN Min({j \in 1..Len(hits) : hits[j]}) - 1
    ELSE -1

\* Before the three tiers, a faulty variant that tries the case-insensitive
\* tier first (C11 must tell the two apart).
MatchColumnCaseFirst(cols, col) ==
    LET nocase == [j \in 1..Len(cols) |-> LowerText(cols[j]) = LowerText(col)]
        slugged == [j \in 1..Len(cols) |-> slug_(cols[j]) = slug_(col)]
    IN  IF IndexWhere(nocase) >= 0 THEN IndexWhere(nocase) ELSE IndexWhere(slugged)

MatchColumn(cols, col) ==
    LET exact == [j \in 1..Len(cols) |-> cols[j] = col]
        nocase == [j \in 1..Len(cols) |-> LowerText(cols[j]) = LowerText(col)]
        slugged == [j \in 1..Len(cols) |-> slug_(cols[j]) = slug_(col)]
    IN  IF IndexWhere(exact) >= 0 THEN IndexWhere(exact)
        ELSE IF IndexWhere(nocase) >= 0 THEN IndexWhere(nocase)
        ELSE IndexWhere(slugged)

\* pos_map of one block: placeholder index -> column index
PosMap(blk, ex, tc) ==
    LET mid        == blk.mappingId
        info       == Get(ex.existing, mid, [table |-> None, placeholders |-> EmptyMap])
        cols       == ColumnsOf(tc, info.table)
        saved_vars == Get(ex.existing_placeholders, mid, <<>>)
        ColFor(idx) ==
            IF blk.placeholders[idx + 1] \in DOMAIN info.placeholders
            THEN info.placeholders[blk.placeholders[idx + 1]]
            ELSE IF idx < Len(saved_vars) THEN saved_vars[idx + 1] ELSE <<>>
        bound == {idx \in 0..(Len(blk.placeholders) - 1) :
                     ColFor(idx) # <<>> /\ MatchColumn(cols, ColFor(idx)) >= 0}
    IN  [idx \in bound |-> MatchColumn(cols, ColFor(idx))]

\* mapping_connections: mappingId -> pos_map
mapping_connections(blocks, ex, tc) ==
    [mid \in {blocks[i].mappingId : i \in 1..Len(blocks)} |->
        PosMap(blocks[Max({i \in 1..Len(blocks) : blocks[i].mappingId = mid})], ex, tc)]

-----------------------------------------------------------------------------
(* The live schema: upload_csv_view and delete_table_view                  *)

T1 == <<"t", "1">>
T2 == <<"t", "2">>

\* the CSV files an operator uploads: table name and header row
CsvFiles ==
    { [table |-> T1, cols |-> << <<"i", "d">>, <<"A", "g", "e">>, <<"s", "t">> >>],
      [table |-> T2, cols |-> << <<"v", "i", "d">>, <<"x">> >>] }

\* CREATE TABLE IF NOT EXISTS <name> AS SELECT * FROM read_csv_auto(file)
upload_csv_view(file) ==
    /\ file.table \notin DOMAIN tables_columns
    /\ tables_columns' = Put(tables_columns, file.table, file.cols)
    /\ UNCHANGED <<obda_file, sess>>

\* DROP TABLE "<table_name>" when it exists
delete_table_view(table_name) ==
    /\ table_name \in DOMAIN tables_columns
    /\ tables_columns' = [t \in DOMAIN tables_columns \ {table_name} |-> tables_columns[t]]
    /\ UNCHANGED <<obda_file, sess>>

-----------------------------------------------------------------------------
(* field_mapping_view as a process: one atomic step up to the point where  *)
(* the file is opened for writing, then open, buffered writes and close    *)

Sessions == {"s1", "s2"}

BufferItems == 6     \* items one write of the buffered file object puts on disk

Conn(kind, pairs) == [kind |-> kind, pairs |-> pairs]

Pair(key, val) == [key |-> key, val |-> val]

K0 == JNumStr(0, <<"0">>)
K1 == JNumStr(1, <<"1">>)

M1 == <<"m", "1">>
M2 == <<"m", "2">>

PostData(t1, c1, t2, c2) ==
    (M1 :> [table |-> t1, connections |-> c1]) @@ (M2 :> [table |-> t2, connections |-> c2])

NoConn == Conn("object", <<>>)

\* the POST data of a save: per block the chosen table and connections_<mid>
PostInputs ==
    { \* both blocks bound
      PostData(T1, Conn("object", <<Pair(K0, JInt(0)), Pair(K1, JInt(1))>>),
               T2, Conn("object", <<Pair(K0, JInt(0))>>)),
      \* the second block left without a table
      PostData(T1, Conn("object", <<Pair(K1, JInt(1))>>), <<>>, NoConn),
      \* no block configured
      PostData(<<>>, NoConn, <<>>, NoConn),
      \* connections_m1 is not JSON
      PostData(T1, Conn("malformed", <<>>), <<>>, NoConn),
      \* connections_m1 is JSON but not an object
      PostData(T1, Conn("nondict", <<>>), <<>>, NoConn),
      \* a column index outside the table: the raw int reaches the substitution
      PostData(T1, Conn("object", <<Pair(K0, JInt(7))>>), <<>>, NoConn) }

\* the schemas the uploads and deletions of the model produce
Schemas ==
    { [t \in D |-> (CHOOSE f \in CsvFiles : f.table = t).cols] :
        D \in SUBSET {f.table : f \in CsvFiles} }

\* form.is_valid(): every chosen table is one of the schema's tables
FormValid(blocks, tc, data) ==
    \A i \in 1..Len(blocks) :
        LET tbl == data[blocks[i].mappingId].table
        IN  tbl = <<>> \/ tbl \in DOMAIN tc

\* every document a save of the model writes when nothing interferes
CompleteDocs ==
    { BuildDocument(mapping_blocks(tc), tc, d) :
        <<tc, d>> \in {x \in Schemas \X PostInputs :
                          /\ FormValid(mapping_blocks(x[1]), x[1], x[2])
                          /\ BuildError(mapping_blocks(x[1]), x[1], x[2]) = ""} }

\* what a reader of the file gets: no file, a whole document, or something else
Seen(file) ==
    IF file = NoFile THEN "absent"
    ELSE IF file \in CompleteDocs THEN "complete"
    ELSE "broken"

Idle ==
    [pc |-> "done", method |-> "", status |-> 0, stage |-> "", error |-> "",
     seen |-> "", conns |-> <<>>,
     data |-> <<>>, text |-> <<>>, pos |-> 0, before |-> <<>>, alone |-> TRUE]

Raised(base, stage, error) ==
    [base EXCEPT !.status = 500, !.stage = stage, !.error = error]

\* a GET: steps 1-6, 8, 9
MapGet(p) ==
    /\ sess[p].pc = "done"
    /\ LET blocks == mapping_blocks(tables_columns)
           err    == ReadError(obda_file)
           base   == [Idle EXCEPT !.method = "GET", !.seen = Seen(obda_file)]
       IN  sess' = [sess EXCEPT ![p] =
                IF err # "" THEN Raised(base, "read", err)
                ELSE [base EXCEPT
                        !.status = 200,
                        !.conns  = mapping_connections(blocks,
                                       ReadExisting(obda_file, blocks), tables_columns)]]
    /\ UNCHANGED <<tables_columns, obda_file>>

\* a POST up to line 456: the document is built in memory, nothing is written
MapPost(p, data) ==
    /\ sess[p].pc = "done"
    /\ LET blocks == mapping_blocks(tables_columns)
           err    == ReadError(obda_file)
           berr   == BuildError(blocks, tables_columns, data)
           base   == [Idle EXCEPT !.method = "POST", !.seen = Seen(obda_file)]
       IN  sess' = [sess EXCEPT ![p] =
                IF err # "" THEN Raised(base, "read", err)
                ELSE IF ~FormValid(blocks, tables_columns, data)
                     THEN [base EXCEPT !.status = 200, !.stage = "form"]
                ELSE IF berr # "" THEN Raised(base, "build", berr)
                ELSE IF \E q \in Sessions \ {p} : sess[q].pc = "opened"
                     THEN [base EXCEPT
                             !.pc    = "built",
                             !.seen  = "",
                             !.text  = BuildDocument(blocks, tables_columns, data),
                             !.alone = FALSE]
                ELSE [base EXCEPT
                        !.pc     = "built",
                        !.seen   = "",
                        !.data   = data,
                        !.text   = BuildDocument(blocks, tables_columns, data),
                        !.before = obda_file]]
    /\ UNCHANGED <<tables_columns, obda_file>>

\* another session touching the file ends the save's being alone with it
Disturb(p, s) == [q \in Sessions |->
    IF q # p /\ s[q].pc \in {"built", "opened"}
    THEN [s[q] EXCEPT !.alone = FALSE, !.before = <<>>, !.data = <<>>]
    ELSE s[q]]

\* the request is over: only the response stays
Finished(s, status, stage, error) ==
    [Idle EXCEPT !.method = "POST",
                 !.status = status, !.stage = stage, !.error = error]

\* open(OBDA_FILE, 'w'): the file is created or truncated
MapOpen(p) ==
    /\ sess[p].pc = "built"
    /\ obda_file' = <<>>
    /\ sess' = Disturb(p, [sess EXCEPT ![p].pc = "opened", ![p].pos = 0])
    /\ UNCHANGED <<tables_columns>>

\* os.makedirs or open raises: nothing was touched
MapOpenFails(p) ==
    /\ sess[p].pc = "built"
    /\ sess' = [sess EXCEPT ![p] = Finished(sess[p], 500, "open", "OSError")]
    /\ UNCHANGED <<tables_columns, obda_file>>

Nul == Item("nul", <<>>)      \* the hole a write past the end of the file leaves

\* write `chunk` at offset `pos` of `file`
WriteAt(file, pos, chunk) ==
    LET end == IF pos + Len(chunk) > Len(file) THEN pos + Len(chunk) ELSE Len(file)
    IN  [i \in 1..end |->
            IF i > pos /\ i <= pos + Len(chunk) THEN chunk[i - pos]
            ELSE IF i <= Len(file) THEN file[i]
            ELSE Nul]

\* the next buffer of f.write(...) to reach the disk
NextChunk(s) ==
    SubSeq(s.text, s.pos + 1,
           IF s.pos + BufferItems < Len(s.text) THEN s.pos + BufferItems ELSE Len(s.text))

MapWrite(p) ==
    /\ sess[p].pc = "opened"
    /\ sess[p].pos < Len(sess[p].text)
    /\ obda_file' = WriteAt(obda_file, sess[p].pos, NextChunk(sess[p]))
    /\ sess' = Disturb(p, [sess EXCEPT ![p].pos = @ + Len(NextChunk(sess[p]))])
    /\ UNCHANGED <<tables_columns>>

\* a write raises (disk full, I/O error): the with-block closes the file and
\* the exception leaves the view
MapWriteFails(p) ==
    /\ sess[p].pc = "opened"
    /\ sess[p].pos < Len(sess[p].text)
    /\ sess' = [sess EXCEPT ![p] = Finished(sess[p], 500, "write", "OSError")]
    /\ UNCHANGED <<tables_columns, obda_file>>

\* everything is written: the file is closed and the view redirects
MapClose(p) ==
    /\ sess[p].pc = "opened"
    /\ sess[p].pos = Len(sess[p].text)
    /\ sess' = [sess EXCEPT ![p] = Finished(sess[p], 302, "saved", "")]
    /\ UNCHANGED <<tables_columns, obda_file>>

\* steps 1, 2 and 2b of one request on their own: the placeholders of every
\* block under the schema read by that request, kept with those of the run before
NoRun == [tc |-> <<>>, placeholders |-> <<>>]

ParseRun(tc) ==
    [tc |-> tc,
     placeholders |-> [i \in 1..Len(mapping_blocks(tc)) |-> mapping_blocks(tc)[i].placeholders]]

MapParse ==
    /\ calc' = [op   |-> "parse",
                prev |-> IF calc.op = "parse" THEN calc.last ELSE NoRun,
                last |-> ParseRun(tables_columns)]
    /\ UNCHANGED <<tables_columns, obda_file, sess>>

InitMapping ==
    /\ tables_columns = [t \in {f.table : f \in CsvFiles} |->
                            (CHOOSE f \in CsvFiles : f.table = t).cols]
    /\ obda_file = NoFile
    /\ sess = [p \in Sessions |-> Idle]

-----------------------------------------------------------------------------
(* The gate as a state machine                                             *)

InitGate ==
    /\ options = [exists |-> FALSE, level |-> NoRow]
    /\ allowed_queries = <<>>
    /\ gate = [op |-> "none"]

-----------------------------------------------------------------------------
(* The engine controller: ontop_control_view and ontop_status              *)

MaxSpawn == 3        \* processes the controller starts in one run of the model

\* what remains of a request: the calls it still has to make, the pid it
\* read from PID_FILE and the pid of the process it started
CtlIdle == [todo |-> <<>>, pid |-> 0, proc |-> 0]

\* lines 501-510: PID_FILE exists, its text is a number, and os.kill(pid, 0)
\* finds the process; any exception gives 'stopped'
StatusOf(o) ==
    IF o.has_file /\ o.pid_file # <<>> /\ o.pid_file[1] \in o.alive
    THEN "running" ELSE "stopped"

PidRead(o) == IF o.has_file /\ o.pid_file # <<>> THEN o.pid_file[1] ELSE 0

Actions == {"stop", "start", "restart", ""}

StopCalls == <<"kill", "remove">>

StartCalls == <<"popen", "open", "write">>

\* lines 512-546: the calls the action makes under the status it has read
CallsOf(action, status) ==
    IF action = "stop" /\ status = "running" THEN StopCalls
    ELSE IF action = "start" /\ status # "running" THEN StartCalls
    ELSE IF action = "restart"
         THEN (IF status = "running" THEN StopCalls ELSE <<>>) \o StartCalls
    ELSE <<>>

Starts(calls) == \E i \in 1..Len(calls) : calls[i] = "popen"

Pending == Cardinality({q \in Sessions : Starts(ontop.ctl[q].todo)})

\* the request arrives: the status check of lines 501-510, then either the
\* page with the status (GET) or the first lines of the POST branch
ontop_control_view(p, method, action) ==
    LET status == StatusOf(ontop)
        calls  == IF method = "POST" THEN CallsOf(action, status) ELSE <<>>
    IN  /\ ontop.ctl[p].todo = <<>>
        /\ Starts(calls) => ontop.spawned + Pending < MaxSpawn
        /\ ontop' = [ontop EXCEPT
               !.ctl[p] = [todo |-> calls, pid |-> PidRead(ontop), proc |-> 0],
               !.shown  = IF method = "POST" THEN @ ELSE status]

Call(p, name) == ontop.ctl[p].todo # <<>> /\ Head(ontop.ctl[p].todo) = name

Advance(p) == [ontop.ctl[p] EXCEPT !.todo = Tail(@)]

\* os.kill(pid, signal.SIGTERM), lines 516 and 535; the process is taken to
\* end with the signal. A pid that is no process raises ProcessLookupError.
CtlKill(p) ==
    /\ Call(p, "kill")
    /\ IF ontop.ctl[p].pid \in ontop.alive
       THEN ontop' = [ontop EXCEPT !.alive = @ \ {ontop.ctl[p].pid},
                                   !.ctl[p] = Advance(p)]
       ELSE ontop' = [ontop EXCEPT !.ctl[p] = CtlIdle]

\* os.remove(PID_FILE), lines 517 and 536, whatever the file holds by now;
\* a missing file raises FileNotFoundError
CtlRemove(p) ==
    /\ Call(p, "remove")
    /\ IF ontop.has_file
       THEN ontop' = [ontop EXCEPT !.has_file = FALSE, !.pid_file = <<>>,
                                   !.ctl[p] = Advance(p)]
       ELSE ontop' = [ontop EXCEPT !.ctl[p] = CtlIdle]

\* subprocess.Popen, lines 522-526 and 537-543: a new process with a new pid
CtlPopen(p) ==
    /\ Call(p, "popen")
    /\ ontop.spawned < MaxSpawn
    /\ LET proc == ontop.spawned + 1
       IN  ontop' = [ontop EXCEPT !.spawned = proc,
                                  !.alive = @ \cup {proc},
                                  !.ctl[p] = [Advance(p) EXCEPT !.proc = proc]]

\* open(PID_FILE, 'w'), lines 527 and 544: the file exists and is empty
CtlOpen(p) ==
    /\ Call(p, "open")
    /\ ontop' = [ontop EXCEPT !.has_file = TRUE, !.pid_file = <<>>,
                              !.ctl[p] = Advance(p)]

\* f.write(str(proc.pid)) and the close, lines 528 and 545; the handler
\* sleeps and redirects
CtlWrite(p) ==
    /\ Call(p, "write")
    /\ ontop' = [ontop EXCEPT !.has_file = TRUE, !.pid_file = <<ontop.ctl[p].proc>>,
                              !.ctl[p] = CtlIdle]

\* lines 556-566: the status as JSON
ontop_status ==
    ontop' = [ontop EXCEPT !.shown = StatusOf(ontop)]

\* the engine process ends by itself (it cannot bind its port, it crashes)
EngineExits ==
    \E pid \in ontop.alive : ontop' = [ontop EXCEPT !.alive = @ \ {pid}]

InitOntop ==
    [alive |-> {}, spawned |-> 0, has_file |-> FALSE, pid_file |-> <<>>,
     shown |-> "", ctl |-> [p \in Sessions |-> CtlIdle]]

\* the state after deployment: empty stores, no instantiated document, no engine
Init == InitGate /\ InitMapping /\ calc = [op |-> "none"] /\ ontop = InitOntop

SetLevelStep ==
    /\ \E m \in Methods, lvl \in PostedLevels : set_level(m, lvl)
    /\ UNCHANGED <<mapVars, calc, ontop>>

LevelChoicesStep == level_choices /\ UNCHANGED <<mapVars, calc, ontop>>

LoadStep ==
    /\ \E catalog \in Catalogs : load_allowed_queries(catalog)
    /\ UNCHANGED <<mapVars, calc, ontop>>

SparqlStep ==
    /\ \E req \in GateRequests, ds \in Downstream : protected_sparql(req, ds)
    /\ UNCHANGED <<mapVars, calc, ontop>>

NextGate == SetLevelStep \/ LevelChoicesStep \/ LoadStep \/ SparqlStep

SpecGate == Init /\ [][NextGate]_vars

-----------------------------------------------------------------------------
(* Properties of the gate                                                  *)

\* the authorization outcome the submitted template and the two stores
\* determine: digest of the stripped template, allow-list row, numeric level
Digest(req) == sha512(strip(req.template))

InAllowList(req) == Digest(req) \in DOMAIN allowed_queries

Entry(req) == allowed_queries[Digest(req)]

SameWording(req) ==
    normalize_ws(strip(req.template)) = normalize_ws(strip(Entry(req).query))

\* the digit of the persisted level name ("L3 - ..." is 3), 0 when unset
user_level ==
    IF options.exists /\ options.level \in ValidSet
    THEN (CHOOSE i \in 1..Len(valid) : valid[i] = options.level) - 1
    ELSE 0

Admitted(req) ==
    /\ InAllowList(req)
    /\ SameWording(req)
    /\ Entry(req).level <= user_level

Handled == gate.op = "protected_sparql" /\ gate.req.method = "POST"

IsEmptyResults(r) == r.status = 200 /\ r.kind = "results" /\ r.payload = <<>>

\* C1: a request whose template's allow-list entry requires more than the
\* current global level gets an empty result set and causes no downstream call.
C1_LevelDeniedIsSilent ==
    (Handled /\ InAllowList(gate.req) /\ Entry(gate.req).level > user_level)
        => (IsEmptyResults(gate.resp) /\ gate.calls = <<>>)

\* C2: a request whose template digest is not a key of the allow-list gets an
\* empty successful result set and causes no downstream call.
C2_UnknownTemplateIsInert ==
    (Handled /\ ~InAllowList(gate.req))
        => (IsEmptyResults(gate.resp) /\ gate.calls = <<>>)

\* C3 (supporting fact): the loader stores the text it hashed and the handler
\* hashes the stripped template, so a template whose digest is a key of the
\* allow-list always has the stored wording.
DigestMatchImpliesSameWording ==
    (Handled /\ InAllowList(gate.req)) => SameWording(gate.req)

C5_DownstreamFailureIsGatewayError ==
    (Handled /\ gate.calls # <<>> /\ ~gate.ds.ok)
        => /\ gate.resp.status = 502
           /\ gate.resp.kind = "error"
           /\ gate.resp.payload = <<"Ontop query error: ", gate.ds.error>>
           /\ ~IsEmptyResults(gate.resp)
           /\ gate.resp.status \notin 200..299
           /\ gate.resp.status \notin 400..499

\* C5 witness: the downstream body of a klDiv request could not be decoded
\* and the caller got the 502.
C5_Witness ==
    /\ Handled /\ ~gate.ds.ok
    /\ gate.req.analytics_key = "klDiv"
    /\ gate.ds.error = "JSONDecodeError"
    /\ gate.calls # <<>>
    /\ gate.resp.status = 502

\* C6: the persisted level is unset or one of the seven levels; a set_level
\* call with a level of the enumeration makes it the current level, and a call
\* with any other value leaves the store as it was.
C6_LevelStaysInEnumeration ==
    /\ options.level = NoRow \/ options.level \in ValidSet
    /\ gate.op = "set_level" =>
          IF gate.method = "POST" /\ gate.lvl \in ValidSet
          THEN options.exists /\ options.level = gate.lvl
          ELSE options = gate.before

\* C6 witness: a level outside the enumeration was posted while a level of the
\* enumeration was stored.
C6_Witness ==
    /\ gate.op = "set_level" /\ gate.method = "POST"
    /\ gate.lvl \notin ValidSet
    /\ options.level \in ValidSet

-----------------------------------------------------------------------------
(* The mapping editor as a state machine                                   *)

UploadStep ==
    /\ \E file \in CsvFiles : upload_csv_view(file)
    /\ UNCHANGED <<gateVars, calc, ontop>>

DeleteStep ==
    /\ \E t \in {f.table : f \in CsvFiles} : delete_table_view(t)
    /\ UNCHANGED <<gateVars, calc, ontop>>

GetStep ==
    /\ \E p \in Sessions : MapGet(p)
    /\ UNCHANGED <<gateVars, calc, ontop>>

PostStep ==
    /\ \E p \in Sessions, data \in PostInputs : MapPost(p, data)
    /\ UNCHANGED <<gateVars, calc, ontop>>

OpenStep ==
    /\ \E p \in Sessions : MapOpen(p)
    /\ UNCHANGED <<gateVars, calc, ontop>>

OpenFailsStep ==
    /\ \E p \in Sessions : MapOpenFails(p)
    /\ UNCHANGED <<gateVars, calc, ontop>>

WriteStep ==
    /\ \E p \in Sessions : MapWrite(p)
    /\ UNCHANGED <<gateVars, calc, ontop>>

WriteFailsStep ==
    /\ \E p \in Sessions : MapWriteFails(p)
    /\ UNCHANGED <<gateVars, calc, ontop>>

CloseStep ==
    /\ \E p \in Sessions : MapClose(p)
    /\ UNCHANGED <<gateVars, calc, ontop>>

NextMapping ==
    \/ GetStep \/ PostStep \/ OpenStep \/ OpenFailsStep
    \/ WriteStep \/ WriteFailsStep \/ CloseStep

SpecMapping == Init /\ [][NextMapping]_vars

\* the editor's form while tables are uploaded and deleted
ParseStep == MapParse /\ UNCHANGED <<gateVars, ontop>>

NextSchema == UploadStep \/ DeleteStep \/ GetStep \/ ParseStep

SpecSchema == Init /\ [][NextSchema]_vars

-----------------------------------------------------------------------------
(* Properties of the mapping editor                                        *)

\* the mappingIds of a document, in the order they stand in it
BlockIdsOf(file) ==
    LET ids == SelectSeq(file, LAMBDA it : it.k = "id")
    IN  [i \in 1..Len(ids) |-> ids[i].v]

TemplateIds == [i \in 1..Len(TemplateBlocks) |-> TemplateBlocks[i].mappingId]

\* the template's blocks for which the operator chose a table
ChosenIds(data) == SelectSeq(TemplateIds, LAMBDA mid : data[mid].table # <<>>)

\* session p completes, in this step, a save nobody interfered with
SavesAlone(p) ==
    /\ sess[p].pc = "opened"
    /\ sess[p].alone
    /\ sess'[p].stage = "saved"

C8_ReaderSeesWholeDocument ==
    \A p \in Sessions : sess[p].seen # "broken"

\* session p's save fails in this step, nobody else having touched the file
\* since the save began
FailsAlone(p) ==
    /\ sess[p].pc \in {"built", "opened"}
    /\ sess[p].alone
    /\ sess'[p].pc = "done"
    /\ sess'[p].status = 500

\* session p's save fails in this step while the document is being built
FailsBuilding(p) ==
    /\ sess[p].pc = "done"
    /\ sess'[p] # sess[p]
    /\ sess'[p].stage = "build"

\* C9: a save that fails, on the connections JSON of some block or while the
\* file is written, leaves the persisted document exactly as it was before
\* the save began.
C9_FailedSaveLeavesDocument ==
    [][\A p \in Sessions :
          /\ FailsAlone(p) => obda_file' = sess[p].before
          /\ FailsBuilding(p) => obda_file' = obda_file]_vars

\* C10: reading the instantiated document never makes the request fail: with
\* the file missing or corrupt the request completes, and with no file every
\* block gets an empty connections map.
C10_ReconciliationNeverRaises ==
    \A p \in Sessions :
        sess[p].seen \in {"absent", "broken"} =>
            /\ sess[p].stage # "read"
            /\ (sess[p].method = "GET" /\ sess[p].seen = "absent") =>
                  /\ sess[p].status = 200
                  /\ \A mid \in DOMAIN sess[p].conns : sess[p].conns[mid] = EmptyMap

-----------------------------------------------------------------------------
(* Properties of the parsing steps under a changing schema                 *)

NoRepeats(q) == \A i, j \in 1..Len(q) : q[i] = q[j] => i = j

IsPrefix(a, b) == Len(a) <= Len(b) /\ SubSeq(b, 1, Len(a)) = a

TwoRuns == calc.op = "parse" /\ calc.prev # NoRun

C20_IndexKeepsItsMeaning ==
    TwoRuns =>
        \A b \in 1..Len(calc.prev.placeholders) :
            \A idx \in 0..(Len(calc.prev.placeholders[b]) - 1) :
                /\ InRange(calc.last.placeholders[b], idx)
                /\ At(calc.last.placeholders[b], idx) = At(calc.prev.placeholders[b], idx)

-----------------------------------------------------------------------------
(* The steps of the editor run on their own, on inputs drawn from small    *)
(* sets: column resolution, reconciliation of one block, substitution      *)

MaxCols == 2      \* columns of a table in the resolution inputs

\* column names that differ by case, by separator, or altogether
ColNames ==
    { <<"a", "s">>, <<"A", "s">>, <<"a", " ", "s">>, <<"a", "_", "s">>, <<"A", "-", "S">>, <<"x">> }

ColumnLists == UNION {[1..n -> ColNames] : n \in 0..MaxCols}

\* step 4 for one block whose single placeholder p is associated with `col`
\* in a table whose columns are `cols`
PH == <<"p">>

ResolveBlock == [mappingId |-> M1, placeholders |-> <<PH>>]

ResolveExisting(col) ==
    [existing |-> (M1 :> [table |-> T1, placeholders |-> (PH :> col)]),
     existing_placeholders |-> (M1 :> <<PH>>)]

Resolve(cols, col) ==
    /\ calc.op = "none"
    /\ calc' = [op |-> "resolve", cols |-> cols, col |-> col,
                conns |-> PosMap(ResolveBlock, ResolveExisting(col), (T1 :> cols))]
    /\ UNCHANGED <<gateVars, mapVars, ontop>>

ResolveStep == \E cols \in ColumnLists, col \in ColNames : Resolve(cols, col)

\* template documents for the round trip: the shipped one, one whose first
\* block reads a second table in a subquery, one with a wide gap after FROM
SourceTwoFrom ==
    <<"SELECT", " ", "i", "d", ",", " ", "a", "g", "e", " ",
      "FROM", " ", "\"", "t", "1", "\"", " ",
      "WHERE", " ", "s", "t", " ", "=", " ", "(",
      "SELECT", " ", "x", " ", "FROM", " ", "\"", "t", "2", "\"", ")">>

SourceWideFrom ==
    <<"SELECT", " ", "i", "d", ",", " ", "a", "g", "e", " ",
      "FROM", " ", " ", "\"", "t", "1", "\"", " ",
      "WHERE", " ", "s", "t", " ", "=", " ", "1">>

DocWith(source1) ==
    [i \in 1..Len(TEMPLATE_OBDA) |->
        IF TEMPLATE_OBDA[i] = Item("source", SourceM1)
        THEN Item("source", source1) ELSE TEMPLATE_OBDA[i]]

TemplateDocs == {TEMPLATE_OBDA, DocWith(SourceTwoFrom), DocWith(SourceWideFrom)}

\* steps 1 and 2b on a given template document
ParseBlocks(doc, tc) ==
    LET chunks == Chunks(InnerOf(BodyOf(doc)))
    IN  [i \in 1..Len(chunks) |-> WithSchemaColumns(TemplateBlock(chunks[i]), tc)]

\* a schema in which every placeholder of the templates has its own column
IdSchema ==
    (T1 :> << <<"i", "d">>, <<"a", "g", "e">>, <<"s", "t">> >>)
    @@ (T2 :> << <<"v", "i", "d">>, <<"x">> >>)

IdxKey(i) ==
    JNumStr(i, <<CASE i = 0 -> "0" [] i = 1 -> "1" [] i = 2 -> "2" [] OTHER -> "3">>)

\* the connections the UI posts when every placeholder is bound to the column
\* that bears its name
RECURSIVE IdentityPairs(_, _, _)
IdentityPairs(phs, cols, i) ==
    IF i >= Len(phs) THEN <<>>
    ELSE LET j == IndexWhere([k \in 1..Len(cols) |-> cols[k] = phs[i + 1]])
         IN  (IF j >= 0 THEN <<Pair(IdxKey(i), JInt(j))>> ELSE <<>>)
             \o IdentityPairs(phs, cols, i + 1)

IdentityData(blocks, tc) ==
    [mid \in {blocks[i].mappingId : i \in 1..Len(blocks)} |->
        LET blk == blocks[CHOOSE i \in 1..Len(blocks) : blocks[i].mappingId = mid]
        IN  [table       |-> blk.table_default,
             connections |-> Conn("object",
                                IdentityPairs(blk.placeholders, ColumnsOf(tc, blk.table_default), 0))]]

\* parse the template, then save it with its default tables and the identity
RoundTrip(doc) ==
    LET blocks == ParseBlocks(doc, IdSchema)
    IN  /\ calc.op = "none"
        /\ calc' = [op |-> "roundtrip", template |-> doc,
                    out |-> BuildDocument(blocks, IdSchema, IdentityData(blocks, IdSchema))]
        /\ UNCHANGED <<gateVars, mapVars, ontop>>

RoundTripStep == \E doc \in TemplateDocs : RoundTrip(doc)

\* the save of one block: a template block whose source names a longer
\* identifier (vid) beside its placeholders, a table, and posted connections
MaxPairs == 2     \* entries of a posted connections object

SourceSave ==
    <<"SELECT", " ", "v", "i", "d", ",", " ", "i", "d", ",", " ", "a", "g", "e", " ",
      "FROM", " ", "\"", "t", "1", "\"", " ", "WHERE", " ", "s", "t", " ", "=", " ", "1">>

SaveSchema == (T1 :> << <<"a", "g", "e">>, <<"i", "d">>, <<"x">> >>)

SaveBlock == ParseBlocks(DocWith(SourceSave), SaveSchema)[1]

\* keys and values of the posted object: indices in range, negative, too
\* large, and texts that are not numbers
PostedKeys ==
    { IdxKey(0), IdxKey(1), JNumStr(-1, <<"-", "1">>), JNumStr(7, <<"7">>), JStr(<<"i", "d">>) }

PostedVals == { JInt(0), JInt(1), JInt(2), JInt(7), JStr(<<"x">>) }

\* a JSON object: its keys are distinct
PostedPairs ==
    { q \in UNION {[1..n -> [key : PostedKeys, val : PostedVals]] : n \in 0..MaxPairs} :
        \A i, j \in 1..Len(q) : q[i].key = q[j].key => i = j }

\* lines 416-454 for SaveBlock with table t1 and the posted pairs
SaveResult(pairs) ==
    LET post == [table |-> T1, connections |-> Conn("object", pairs)]
        err  == BlockError(SaveBlock, SaveSchema, post)
        out  == BlockLines(SaveBlock, SaveSchema, post)
    IN  [error  |-> err,
         target |-> IF err = "" THEN strip(out[2].v) ELSE <<>>,
         source |-> IF err = "" THEN out[3].v ELSE <<>>]

SaveOne(pairs) ==
    /\ calc.op = "none"
    /\ calc' = [op |-> "save", pairs |-> pairs, res |-> SaveResult(pairs)]
    /\ UNCHANGED <<gateVars, mapVars, ontop>>

SaveOneStep == \E pairs \in PostedPairs : SaveOne(pairs)

\* reconciliation of a saved block: the template is saved with a table and
\* in-range connections under the schema of that moment, and the document
\* is read back by a later request under the schema of that later moment
SourceNoFilter ==
    <<"SELECT", " ", "i", "d", ",", " ", "a", "g", "e", " ", "FROM", " ", "\"", "t", "1", "\"">>

ReconDocs == {DocWith(SourceSave), DocWith(SourceNoFilter)}

TableAs == <<"A", "s">>      \* a table uploaded as As.csv ...
TableLowerAs == <<"a", "s">> \* ... dropped later, and as.csv uploaded

SavedTables == {T1, TableAs}

ReadSchema == (T1 :> SaveSchema[T1]) @@ (TableLowerAs :> SaveSchema[T1])

InRangePairs ==
    { q \in PostedPairs :
        \A i \in 1..Len(q) :
            /\ q[i].key.num /\ q[i].val.num
            /\ q[i].key.n \in 0..1
            /\ q[i].val.n \in 0..(Len(SaveSchema[T1]) - 1) }

Reconcile(doc, tbl, pairs) ==
    LET saveTc == (tbl :> SaveSchema[T1])
        saved  == ParseBlocks(doc, saveTc)
        data   == (M1 :> [table |-> tbl, connections |-> Conn("object", pairs)])
                  @@ (M2 :> [table |-> <<>>, connections |-> NoConn])
        file   == BuildDocument(saved, saveTc, data)
        blocks == ParseBlocks(doc, ReadSchema)
        ex     == ReadExisting(file, blocks)
    IN  /\ calc.op = "none"
        /\ BuildError(saved, saveTc, data) = ""
        /\ ReadError(file) = ""
        /\ calc' = [op |-> "reconcile", template |-> doc, table |-> tbl, pairs |-> pairs,
                    file |-> file, ex |-> ex,
                    conns |-> mapping_connections(blocks, ex, ReadSchema)]
        /\ UNCHANGED <<gateVars, mapVars, ontop>>

ReconcileStep ==
    \E doc \in ReconDocs, tbl \in SavedTables, pairs \in InRangePairs : Reconcile(doc, tbl, pairs)

NextCalc == ResolveStep \/ RoundTripStep \/ SaveOneStep \/ ReconcileStep

SpecCalc == Init /\ [][NextCalc]_vars

\* the first index of cols (0-based) at which Same(cols[j], col) holds, if any
TierHits(cols, col, tier) ==
    {j \in 1..Len(cols) :
        CASE tier = 1 -> cols[j] = col
          [] tier = 2 -> LowerText(cols[j]) = LowerText(col)
          [] tier = 3 -> slug_(cols[j]) = slug_(col)}

BestTier(cols, col) ==
    IF \E t \in 1..3 : TierHits(cols, col, t) # {}
    THEN Min({t \in 1..3 : TierHits(cols, col, t) # {}})
    ELSE 0

\* C11: the placeholder is mapped to the first column of the highest-ranked
\* tier that has a match (exact, then case-insensitive, then normalized); a
\* name that matches in no tier gets no entry.
C11_HighestTierWins ==
    calc.op = "resolve" =>
        LET t == BestTier(calc.cols, calc.col)
        IN  IF t = 0 THEN calc.conns = EmptyMap
            ELSE calc.conns = (0 :> (Min(TierHits(calc.cols, calc.col, t)) - 1))

\* C11 witness: the name matches the second column exactly and the first one
\* only case-insensitively, and the second column was taken.
C11_Witness ==
    /\ calc.op = "resolve"
    /\ Len(calc.cols) = 2
    /\ calc.cols[2] = calc.col
    /\ calc.cols[1] # calc.col
    /\ LowerText(calc.cols[1]) = LowerText(calc.col)
    /\ calc.conns = (0 :> 1)

\* every table a source fragment reads, in order
RECURSIVE FromTables(_)
FromTables(src) ==
    IF src = <<>> THEN <<>>
    ELSE LET n == FromMatchLen(src)
         IN  IF n > 0
             THEN <<FromTable(SubSeq(src, 1, n))>> \o FromTables(Drop(src, n))
             ELSE FromTables(Tail(src))

SameBlock(a, b) ==
    /\ a.mappingId = b.mappingId
    /\ a.target = b.target
    /\ a.placeholders = b.placeholders
    /\ FromTables(a.source_tpl) = FromTables(b.source_tpl)

\* C13: the template, parsed and saved with each block's default table and
\* the identity connections, comes back as an equivalent document: the same
\* blocks, the same tables, the same placeholders in target and source.
C13_IdentityRoundTrip ==
    calc.op = "roundtrip" =>
        LET a == ParseBlocks(calc.template, IdSchema)
            b == ParseBlocks(calc.out, IdSchema)
        IN  /\ Len(a) = Len(b)
            /\ \A i \in 1..Len(a) : SameBlock(a[i], b[i])

\* the identifiers and keywords of a text: its maximal runs of word characters
RECURSIVE Words(_)
Words(t) ==
    IF t = <<>> THEN <<>>
    ELSE IF Head(t) \in WordChars
         THEN <<Run(t, WordChars)>> \o Words(Drop(t, Len(Run(t, WordChars))))
         ELSE Words(Tail(t))

\* an entry whose two indices lie in the block's placeholders and the
\* table's columns
EntryInRange(e) ==
    /\ e.key.num /\ e.val.num
    /\ 0 <= e.key.n /\ e.key.n < Len(SaveBlock.placeholders)
    /\ 0 <= e.val.n /\ e.val.n < Len(SaveSchema[T1])

Saved == calc.op = "save" /\ calc.res.error = ""

\* C14: binding placeholder p to column c leaves every identifier of the
\* source other than p itself unchanged, also one that contains p.
C14_ReplaceIsDelimiterBounded ==
    (Saved /\ Len(calc.pairs) = 1 /\ EntryInRange(calc.pairs[1])) =>
        LET p      == At(SaveBlock.placeholders, calc.pairs[1].key.n)
            before == Words(SaveResult(<<>>).source)
            after  == Words(calc.res.source)
        IN  /\ Len(after) = Len(before)
            /\ \A i \in 1..Len(before) : before[i] # p => after[i] = before[i]

\* C17: reconciliation emits only entries whose placeholder index and column
\* index are in range, and on save an entry with an index out of range,
\* negative or not a number causes no substitution: the fragments are those
\* the in-range entries alone produce.
C17_OnlyInRangeEntriesTakeEffect ==
    /\ calc.op = "resolve" =>
          \A idx \in DOMAIN calc.conns :
              /\ 0 <= idx /\ idx < Len(ResolveBlock.placeholders)
              /\ 0 <= calc.conns[idx] /\ calc.conns[idx] < Len(calc.cols)
    /\ Saved =>
          LET kept == SaveResult(SelectSeq(calc.pairs, EntryInRange))
          IN  calc.res.target = kept.target /\ calc.res.source = kept.source

Reverse(q) == [i \in 1..Len(q) |-> q[Len(q) + 1 - i]]

\* C19: the fragments a connections map produces do not depend on the order
\* in which its entries are applied.
C19_SubstitutionIsSimultaneous ==
    (Saved /\ \A i \in 1..Len(calc.pairs) : EntryInRange(calc.pairs[i])) =>
        LET other == SaveResult(Reverse(calc.pairs))
        IN  calc.res.target = other.target /\ calc.res.source = other.source

\* the first block of the reconciled template and of the document read back
ReconBlock == ParseBlocks(calc.template, ReadSchema)[1]

ReconChunk == StripBlank(Chunks(InnerOf(BodyOf(calc.file)))[1])

\* what alias/bare detection and filter realignment find without the
\* positional fallback
Detected ==
    FilterMerge(ReconBlock.source_tpl, SourceText(ReconChunk),
                AliasOrBare(ReconBlock.placeholders, SourceText(ReconChunk), EmptyMap))

\* C15: an association found by alias/bare detection or filter realignment
\* is never overwritten by the positional fallback, and a placeholder they
\* left unresolved is associated by position only when the instantiated
\* target has as many placeholders as the template block.
C15_PositionalFallbackOnlyFills ==
    calc.op = "reconcile" =>
        LET final == calc.ex.existing[M1].placeholders
            saved_vars == SavedVars(ReconChunk)
        IN  /\ \A v \in DOMAIN Detected : v \in DOMAIN final /\ final[v] = Detected[v]
            /\ Len(saved_vars) # Len(ReconBlock.placeholders) =>
                  \A i \in 1..Len(ReconBlock.placeholders) :
                      ReconBlock.placeholders[i] \notin DOMAIN Detected
                          => (i - 1) \notin DOMAIN calc.conns[M1]

\* C16: when the table recorded in the instantiated block is not in the
\* schema verbatim but its normalized form is, the block's columns are
\* resolved against that normalized table.
C16_NormalizedTableIsTried ==
    (/\ calc.op = "reconcile"
     /\ calc.table \notin DOMAIN ReadSchema
     /\ slug_(calc.table) \in DOMAIN ReadSchema) =>
        LET norm == [calc.ex EXCEPT !.existing[M1].table = slug_(calc.table)]
        IN  calc.conns[M1] = PosMap(ReconBlock, norm, ReadSchema)

\* C18: once two sessions have both saved, however their steps interleaved,
\* the persisted document is the complete output of a save, never a mixture
\* of the two outputs.
C18_LastWriteWins ==
    (\A p \in Sessions : sess[p].stage = "saved") => obda_file \in CompleteDocs

-----------------------------------------------------------------------------
(* The engine controller as a state machine                                *)

ControlStep ==
    /\ \E p \in Sessions, m \in Methods, a \in Actions : ontop_control_view(p, m, a)
    /\ UNCHANGED <<gateVars, mapVars, calc>>

KillStep == (\E p \in Sessions : CtlKill(p)) /\ UNCHANGED <<gateVars, mapVars, calc>>

RemoveStep == (\E p \in Sessions : CtlRemove(p)) /\ UNCHANGED <<gateVars, mapVars, calc>>

PopenStep == (\E p \in Sessions : CtlPopen(p)) /\ UNCHANGED <<gateVars, mapVars, calc>>

OpenPidStep == (\E p \in Sessions : CtlOpen(p)) /\ UNCHANGED <<gateVars, mapVars, calc>>

WritePidStep == (\E p \in Sessions : CtlWrite(p)) /\ UNCHANGED <<gateVars, mapVars, calc>>

StatusStep == ontop_status /\ UNCHANGED <<gateVars, mapVars, calc>>

ExitStep == EngineExits /\ UNCHANGED <<gateVars, mapVars, calc>>

NextEngine ==
    \/ ControlStep \/ KillStep \/ RemoveStep \/ PopenStep
    \/ OpenPidStep \/ WritePidStep \/ StatusStep \/ ExitStep

SpecEngine == Init /\ [][NextEngine]_vars

\* no request of the controller is in flight
Quiet == \A p \in Sessions : ontop.ctl[p].todo = <<>>

\* C21: once every start, stop and restart request has returned, however
\* the requests interleaved, at most one process started by the controller
\* is alive, and when one is alive PID_FILE exists and holds its pid.
C21_OneTrackedEngine ==
    Quiet =>
        /\ Cardinality(ontop.alive) <= 1
        /\ \A pid \in ontop.alive : ontop.has_file /\ ontop.pid_file = <<pid>>

====
